---- MODULE Spec2Model ----
(***************************************************************************)
(* State/time engine of the CloudVPS demo app (src/app.js): points, task   *)
(* cooldowns, the UTC daily gate, the VPS lease countdown and persistence. *)
(*                                                                         *)
(* Time is Date.now() in milliseconds.  A UTC date-key "YYYY-MM-DD" is     *)
(* represented by the number of the UTC day (ms \div 86400000); the empty  *)
(* string "" of dailyClaimedUtcDate is represented by 0, which is no key   *)
(* of any instant the clock takes (the clock starts after day 1 began).    *)
(* A storage item is <<>> when the key is absent and <<v>> when it holds   *)
(* v; the values written are plain objects of finite integers and strings, *)
(* which JSON.stringify / JSON.parse return structurally unchanged.        *)
(*                                                                         *)
(* Handlers run to completion (one thread of control), so each handler, or *)
(* each half of an async handler around its await, is one action.  The     *)
(* handlers are reachable as event listeners; their own guards, not the    *)
(* disabled attribute of a button, are what the model relies on (tick's    *)
(* renderTasks re-enables a task button while its claim is in flight).     *)
(***************************************************************************)
EXTENDS Integers, Sequences, FiniteSets, Bags, TLC

Min(a, b) == IF a <= b THEN a ELSE b
Max(a, b) == IF a >= b THEN a ELSE b

\* ---------------------------------------------------------------- Config
CFG ==
  [ redeem |-> [points |-> 10, seconds |-> 6 * 60 * 60],
    extend |-> [points |-> 50, seconds |-> 60 * 60],
    tasks  |-> [ video |-> [reward |-> 5,  cooldownSec |-> 0,  label |-> "Watched Ad"],
                 short |-> [reward |-> 2,  cooldownSec |-> 25, label |-> "Short Link Completed"],
                 daily |-> [reward |-> 10, cooldownSec |-> 0,  label |-> "Daily Bonus Achieved"] ],
    simulateDelayMs |-> [min |-> 850, max |-> 1350],
    activityMax |-> 6 ]

TaskTypes == {"video", "short", "daily"}

DayMs == 86400000
EmptyKey == 0

\* ---------------------------------------------------------------- Bounds
\* Two constructions of the app are explored.  The first run (nothing in
\* storage) happens 1.5 s before a UTC midnight; the clock then takes MaxFine
\* steps of FineStep, just over the shortest simulated delay, and then
\* stands at the end of the cooldown of the earliest possible short-link
\* claim, plus MaxAfter further steps.  The later run, a day after, finds
\* the blob of an account with 70 points and a paused lease; the clock takes
\* MaxFine steps and then stands 18000.5 s after the earliest possible
\* completion of a redeem, 1500 s after that and 2200 s after that.  Nothing
\* has to happen at an instant, so any longer gap between two events is
\* covered.
StartMs == 2 * DayMs - 1500
LeaseStartMs == 3 * DayMs
FineStep == CFG.simulateDelayMs.min + 150
Gaps == <<18000500, 1500000, 2200000>>
MaxFine == 2
MaxAfter == 0
MaxGaps == 3
\* Operations the user has accepted in a run (task claims, creates and
\* extends that pass their guards); rejected ones are not limited.
MaxRecent == 2

RECURSIVE GapLevel(_)
GapLevel(k) == IF k = 0 THEN 0 ELSE Gaps[k] + GapLevel(k - 1)

TaskInstants ==
  { StartMs + a * FineStep : a \in 0..MaxFine }
  \cup { StartMs + FineStep + CFG.tasks.short.cooldownSec * 1000 + a * FineStep :
           a \in 0..MaxAfter }
LeaseInstants ==
  { LeaseStartMs + a * FineStep : a \in 0..MaxFine }
  \cup { LeaseStartMs + FineStep + GapLevel(k) : k \in 1..Min(MaxGaps, Len(Gaps)) }
\* The instants the clock still takes after t.
Later(t) ==
  { u \in (IF t < LeaseStartMs THEN TaskInstants ELSE LeaseInstants) : u > t }
\* The simulated delay randInt(min, max).  A timer may fire late, so every
\* run with a longer delay is also a run with the shortest one.
Delays == {CFG.simulateDelayMs.min}

\* ---------------------------------------------------------------- Helpers
utcDateKey(t) == t \div DayMs

\* The toast element when no message is being shown.
NoToast == <<"", 0>>

VARIABLES
  now,            \* Date.now()
  state,          \* app: let state
  sessionEarned,  \* app: let sessionEarned
  appItem,        \* localStorage[KEYS.app]
  earnedItem,     \* sessionStorage[KEYS.sessionEarned]
  session,        \* auth: let session (persisted on every change)
  toast,          \* what the last step showed: <<message, number in it>>, NoToast if nothing
  tasksInFlight,  \* bag of runTask continuations waiting on their timer
  createInFlight, \* bag of due times of createVps continuations waiting on their timer
  resolver,       \* confirmModal: a stopVps continuation waits for ok/cancel
  started         \* operations the user has had accepted so far in this run

vars == <<now, state, sessionEarned, appItem, earnedItem, session, toast,
          tasksInFlight, createInFlight, resolver, started>>

\* The mutable memory the app functions read and write.
Mem == [state |-> state, sessionEarned |-> sessionEarned, appItem |-> appItem,
        earnedItem |-> earnedItem, toast |-> NoToast]

Commit(m) ==
  /\ state' = m.state
  /\ sessionEarned' = m.sessionEarned
  /\ appItem' = m.appItem
  /\ earnedItem' = m.earnedItem
  /\ toast' = m.toast

toastShow(m, msg, n) == [m EXCEPT !.toast = <<msg, n>>]

initial(t) ==
  [ pointsBalance |-> 0,
    vps |-> [status |-> "stopped", timeLeftSec |-> 0, lastTickMs |-> t],
    daily |-> [utcDate |-> utcDateKey(t), earned |-> 0, dailyClaimedUtcDate |-> EmptyKey],
    tasks |-> [video |-> [cooldownUntilMs |-> 0], short |-> [cooldownUntilMs |-> 0]],
    activity |-> <<>> ]

persist(m) ==
  [m EXCEPT !.appItem = <<m.state>>, !.earnedItem = <<m.sessionEarned>>]

\* A pushActivity that never drops an entry (C11 fails for it).
pushActivityKeepAll(m, label, delta, t) ==
  LET entry == [label |-> label, delta |-> delta, ts |-> t]
  IN persist([m EXCEPT !.state.activity = <<entry>> \o m.state.activity])

pushActivity(m, label, delta, t) ==
  LET entry == [label |-> label, delta |-> delta, ts |-> t]
      all == <<entry>> \o m.state.activity
  IN persist([m EXCEPT !.state.activity = SubSeq(all, 1, Min(Len(all), CFG.activityMax))])

\* An ensureDaily that starts the new day with no points (C13 fails for it).
ensureDailyResetsPoints(m, t) ==
  IF m.state.daily.utcDate # utcDateKey(t)
  THEN toastShow(
         persist([m EXCEPT !.state.pointsBalance = 0,
                           !.state.daily =
                    [utcDate |-> utcDateKey(t), earned |-> 0, dailyClaimedUtcDate |-> EmptyKey]]),
         "Daily missions refreshed (UTC).", 0)
  ELSE m

ensureDaily(m, t) ==
  IF m.state.daily.utcDate # utcDateKey(t)
  THEN toastShow(
         persist([m EXCEPT !.state.daily =
                    [utcDate |-> utcDateKey(t), earned |-> 0, dailyClaimedUtcDate |-> EmptyKey]]),
         "Daily missions refreshed (UTC).", 0)
  ELSE m

\* A tick that counts one second per call instead of the elapsed time (C4
\* fails for it).
tickPerCall(m, t) ==
  LET m1 == ensureDaily(m, t)
      v == m1.state.vps
  IN IF v.status = "running" /\ v.timeLeftSec > 0
     THEN LET m2 == persist([m1 EXCEPT !.state.vps.timeLeftSec = Max(0, v.timeLeftSec - 1),
                                       !.state.vps.lastTickMs = t])
          IN IF m2.state.vps.timeLeftSec <= 0
             THEN toastShow(
                    persist([m2 EXCEPT !.state.vps.timeLeftSec = 0,
                                       !.state.vps.status = "stopped",
                                       !.state.vps.lastTickMs = t]),
                    "Time ended. VPS stopped.", 0)
             ELSE m2
     ELSE m1

\* A tick that leaves a lease that ran out running (C9 fails for it).
tickNoStop(m, t) ==
  LET m1 == ensureDaily(m, t)
      v == m1.state.vps
  IN IF v.status = "running" /\ v.timeLeftSec > 0
     THEN LET last == IF v.lastTickMs = 0 THEN t ELSE v.lastTickMs
              delta == (t - last) \div 1000
          IN IF delta > 0
             THEN persist([m1 EXCEPT !.state.vps.timeLeftSec = Max(0, v.timeLeftSec - delta),
                                     !.state.vps.lastTickMs = last + delta * 1000])
             ELSE m1
     ELSE m1

\* A tick that moves lastTickMs to now and so drops the part of a second that
\* has elapsed (C10 fails for it).
tickDropRemainder(m, t) ==
  LET m1 == ensureDaily(m, t)
      v == m1.state.vps
  IN IF v.status = "running" /\ v.timeLeftSec > 0
     THEN LET last == IF v.lastTickMs = 0 THEN t ELSE v.lastTickMs
              delta == (t - last) \div 1000
              m2 == IF delta > 0
                    THEN persist([m1 EXCEPT !.state.vps.timeLeftSec = Max(0, v.timeLeftSec - delta),
                                            !.state.vps.lastTickMs = t])
                    ELSE m1
          IN IF m2.state.vps.timeLeftSec <= 0
             THEN toastShow(
                    persist([m2 EXCEPT !.state.vps.timeLeftSec = 0,
                                       !.state.vps.status = "stopped",
                                       !.state.vps.lastTickMs = t]),
                    "Time ended. VPS stopped.", 0)
             ELSE m2
     ELSE m1

\* A tick that tells of the expiry again whenever it finds the lease out of
\* time (C23 fails for it).
tickKeepsNotifying(m, t) ==
  LET m1 == ensureDaily(m, t)
      v == m1.state.vps
  IN IF v.status = "running" /\ v.timeLeftSec > 0
     THEN LET last == IF v.lastTickMs = 0 THEN t ELSE v.lastTickMs
              delta == (t - last) \div 1000
              m2 == IF delta > 0
                    THEN persist([m1 EXCEPT !.state.vps.timeLeftSec = Max(0, v.timeLeftSec - delta),
                                            !.state.vps.lastTickMs = last + delta * 1000])
                    ELSE m1
          IN IF m2.state.vps.timeLeftSec <= 0
             THEN toastShow(
                    persist([m2 EXCEPT !.state.vps.timeLeftSec = 0,
                                       !.state.vps.status = "stopped",
                                       !.state.vps.lastTickMs = t]),
                    "Time ended. VPS stopped.", 0)
             ELSE m2
     ELSE IF v.timeLeftSec <= 0 /\ m1.state.activity # <<>>
     THEN toastShow(m1, "Time ended. VPS stopped.", 0)
     ELSE m1

\* countdown tick
tick(m, t) ==
  LET m1 == ensureDaily(m, t)
      v == m1.state.vps
  IN IF v.status = "running" /\ v.timeLeftSec > 0
     THEN LET last == IF v.lastTickMs = 0 THEN t ELSE v.lastTickMs
              delta == (t - last) \div 1000
              m2 == IF delta > 0
                    THEN persist([m1 EXCEPT !.state.vps.timeLeftSec = Max(0, v.timeLeftSec - delta),
                                            !.state.vps.lastTickMs = last + delta * 1000])
                    ELSE m1
          IN IF m2.state.vps.timeLeftSec <= 0
             THEN toastShow(
                    persist([m2 EXCEPT !.state.vps.timeLeftSec = 0,
                                       !.state.vps.status = "stopped",
                                       !.state.vps.lastTickMs = t]),
                    "Time ended. VPS stopped.", 0)
             ELSE m2
     ELSE m1

\* The app IIFE: load, normalize, then the first tick().
construct(app, earned, t) ==
  LET today == utcDateKey(t)
      loaded == IF app = <<>> THEN initial(t) ELSE app[1]
      s1 == IF loaded.daily.utcDate # today
            THEN [loaded EXCEPT !.daily =
                    [utcDate |-> today, earned |-> 0, dailyClaimedUtcDate |-> EmptyKey]]
            ELSE loaded
      s2 == IF s1.daily.dailyClaimedUtcDate # EmptyKey /\ s1.daily.dailyClaimedUtcDate # today
            THEN [s1 EXCEPT !.daily.dailyClaimedUtcDate = EmptyKey]
            ELSE s1
      se == IF earned = <<>> THEN 0 ELSE earned[1]
  IN tick([state |-> s2, sessionEarned |-> se, appItem |-> app,
           earnedItem |-> earned, toast |-> NoToast], t)

\* What an earlier run left under KEYS.app.  That run started at the
\* beginning of day 1 with nothing in storage, credited 26 "video" claims, one
\* each second (130 points), then created a VPS (running at 27 s), extended
\* it at 27.5 s and stopped it at 27.9 s, before a whole second of the lease
\* had elapsed.
PausedBlob ==
  [ pointsBalance |-> 70,
    vps |-> [status |-> "stopped", timeLeftSec |-> 25200, lastTickMs |-> DayMs + 27900],
    daily |-> [utcDate |-> 1, earned |-> 130, dailyClaimedUtcDate |-> EmptyKey],
    tasks |-> [video |-> [cooldownUntilMs |-> DayMs + 26000], short |-> [cooldownUntilMs |-> 0]],
    activity |->
      << [label |-> "Extended time", delta |-> -50, ts |-> DayMs + 27500],
         [label |-> "Redeemed VPS 6H", delta |-> -10, ts |-> DayMs + 27000],
         [label |-> "Watched Ad", delta |-> 5, ts |-> DayMs + 26000],
         [label |-> "Watched Ad", delta |-> 5, ts |-> DayMs + 25000],
         [label |-> "Watched Ad", delta |-> 5, ts |-> DayMs + 24000],
         [label |-> "Watched Ad", delta |-> 5, ts |-> DayMs + 23000] >> ]

\* (instant of construction, item under KEYS.app); sessionStorage is empty in
\* a new browser session and nobody is signed in.
Starts == { <<StartMs, <<>> >>, <<LeaseStartMs, <<PausedBlob>> >> }

Init ==
  \E st \in Starts :
    /\ now = st[1]
    /\ session = "null"
    /\ tasksInFlight = EmptyBag
    /\ createInFlight = EmptyBag
    /\ resolver = FALSE
    /\ started = 0
    /\ LET m == construct(st[2], <<>>, st[1])
       IN /\ state = m.state
          /\ sessionEarned = m.sessionEarned
          /\ appItem = m.appItem
          /\ earnedItem = m.earnedItem
          /\ toast = m.toast

\* ---------------------------------------------------------------- Operations
isLoggedIn(ses) == ses # "null"

\* A runTask whose cooldown still holds at cooldownUntilMs itself (C3 fails
\* for it).
runTaskGateStrict(m, type, t, ses) ==
  LET m1 == ensureDaily(m, t)
      today == utcDateKey(t)
      cd == IF type \in DOMAIN m1.state.tasks THEN m1.state.tasks[type].cooldownUntilMs ELSE 0
  IN IF ~isLoggedIn(ses)
     THEN [m |-> m1, go |-> FALSE]
     ELSE IF type = "daily" /\ m1.state.daily.dailyClaimedUtcDate = today
     THEN [m |-> toastShow(m1, "Daily bonus already claimed today (UTC).", 0), go |-> FALSE]
     ELSE IF type # "daily" /\ t <= cd
     THEN [m |-> toastShow(m1, "Task on cooldown. Please wait.", 0), go |-> FALSE]
     ELSE [m |-> toastShow(m1, "Processing task...", 0), go |-> TRUE]

\* A runTask that starts the cooldown again when it rejects a claim made too
\* early (C24 fails for it).
runTaskGateRestarts(m, type, t, ses) ==
  LET m1 == ensureDaily(m, t)
      cfg == CFG.tasks[type]
      today == utcDateKey(t)
      cd == IF type \in DOMAIN m1.state.tasks THEN m1.state.tasks[type].cooldownUntilMs ELSE 0
  IN IF ~isLoggedIn(ses)
     THEN [m |-> m1, go |-> FALSE]
     ELSE IF type = "daily" /\ m1.state.daily.dailyClaimedUtcDate = today
     THEN [m |-> toastShow(m1, "Daily bonus already claimed today (UTC).", 0), go |-> FALSE]
     ELSE IF type # "daily" /\ t < cd
     THEN [m |-> toastShow(
                   persist([m1 EXCEPT !.state.tasks[type].cooldownUntilMs =
                                        t + cfg.cooldownSec * 1000]),
                   "Task on cooldown. Please wait.", 0),
           go |-> FALSE]
     ELSE [m |-> toastShow(m1, "Processing task...", 0), go |-> TRUE]

\* runTask up to its await: go tells whether the reward is scheduled.
runTaskGate(m, type, t, ses) ==
  LET m1 == ensureDaily(m, t)
      cfg == CFG.tasks[type]
      today == utcDateKey(t)
      cd == IF type \in DOMAIN m1.state.tasks THEN m1.state.tasks[type].cooldownUntilMs ELSE 0
  IN IF ~isLoggedIn(ses)
     THEN [m |-> m1, go |-> FALSE]
     ELSE IF type = "daily" /\ m1.state.daily.dailyClaimedUtcDate = today
     THEN [m |-> toastShow(m1, "Daily bonus already claimed today (UTC).", 0), go |-> FALSE]
     ELSE IF type # "daily" /\ t < cd
     THEN [m |-> toastShow(m1, "Task on cooldown. Please wait.", 0), go |-> FALSE]
     ELSE [m |-> toastShow(m1, "Processing task...", 0), go |-> TRUE]

\* A runTask that counts the reward into the daily window before the gate
\* has looked at the date (C15 fails for it).
runTaskRewardEarnedFirst(m, type, today, t) ==
  LET cfg == CFG.tasks[type]
      m1 == [m EXCEPT !.state.pointsBalance = @ + cfg.reward,
                      !.sessionEarned = @ + cfg.reward,
                      !.state.daily.earned = @ + cfg.reward]
      m2 == ensureDaily(m1, t)
      m4 == pushActivity(m2, cfg.label, cfg.reward, t)
      m5 == IF type = "daily"
            THEN [m4 EXCEPT !.state.daily.dailyClaimedUtcDate = today]
            ELSE [m4 EXCEPT !.state.tasks[type].cooldownUntilMs = t + cfg.cooldownSec * 1000]
  IN toastShow(persist(m5), "+N points earned.", cfg.reward)

\* runTask after its await; today is the key captured before the await.
runTaskReward(m, type, today, t) ==
  LET cfg == CFG.tasks[type]
      m1 == [m EXCEPT !.state.pointsBalance = @ + cfg.reward,
                      !.sessionEarned = @ + cfg.reward]
      m2 == ensureDaily(m1, t)
      m3 == [m2 EXCEPT !.state.daily.earned = @ + cfg.reward]
      m4 == pushActivity(m3, cfg.label, cfg.reward, t)
      m5 == IF type = "daily"
            THEN [m4 EXCEPT !.state.daily.dailyClaimedUtcDate = today]
            ELSE [m4 EXCEPT !.state.tasks[type].cooldownUntilMs = t + cfg.cooldownSec * 1000]
  IN toastShow(persist(m5), "+N points earned.", cfg.reward)

\* A createVps that debits without the sufficiency check (C1 fails for it).
createVpsUnchecked(m, ses) ==
  IF ~isLoggedIn(ses)
  THEN [m |-> m, go |-> FALSE]
  ELSE IF m.state.vps.status = "running" \/ m.state.vps.status = "provisioning"
  THEN [m |-> toastShow(m, "VPS is already running/provisioning.", 0), go |-> FALSE]
  ELSE [m |-> toastShow(
                persist([m EXCEPT !.state.pointsBalance = @ - CFG.redeem.points,
                                  !.state.vps.status = "provisioning"]),
                "Provisioning VPS...", 0),
        go |-> TRUE]

\* A createVps that wants more points than the cost (C7 fails for it).
createVpsStrict(m, ses) ==
  IF ~isLoggedIn(ses)
  THEN [m |-> m, go |-> FALSE]
  ELSE IF m.state.vps.status = "running" \/ m.state.vps.status = "provisioning"
  THEN [m |-> toastShow(m, "VPS is already running/provisioning.", 0), go |-> FALSE]
  ELSE IF m.state.pointsBalance <= CFG.redeem.points
  THEN [m |-> toastShow(m, "Not enough points. Need N more.",
                        CFG.redeem.points - m.state.pointsBalance), go |-> FALSE]
  ELSE [m |-> toastShow(
                persist([m EXCEPT !.state.pointsBalance = @ - CFG.redeem.points,
                                  !.state.vps.status = "provisioning"]),
                "Provisioning VPS...", 0),
        go |-> TRUE]

\* createVps up to its await.
createVpsStart(m, ses) ==
  IF ~isLoggedIn(ses)
  THEN [m |-> m, go |-> FALSE]
  ELSE IF m.state.vps.status = "running" \/ m.state.vps.status = "provisioning"
  THEN [m |-> toastShow(m, "VPS is already running/provisioning.", 0), go |-> FALSE]
  ELSE IF m.state.pointsBalance < CFG.redeem.points
  THEN [m |-> toastShow(m, "Not enough points. Need N more.",
                        CFG.redeem.points - m.state.pointsBalance), go |-> FALSE]
  ELSE [m |-> toastShow(
                persist([m EXCEPT !.state.pointsBalance = @ - CFG.redeem.points,
                                  !.state.vps.status = "provisioning"]),
                "Provisioning VPS...", 0),
        go |-> TRUE]

\* A createVps that takes the cost again when the VPS comes up (C22 fails for
\* it).
createVpsFinishDebits(m, t) ==
  LET m1 == [m EXCEPT !.state.pointsBalance = @ - CFG.redeem.points,
                      !.state.vps.status = "running",
                      !.state.vps.timeLeftSec = CFG.redeem.seconds,
                      !.state.vps.lastTickMs = t]
      m2 == pushActivity(m1, "Redeemed VPS 6H", 0 - CFG.redeem.points, t)
  IN toastShow(persist(m2), "VPS is running. Countdown started.", 0)

\* createVps after its await.
createVpsFinish(m, t) ==
  LET m1 == [m EXCEPT !.state.vps.status = "running",
                      !.state.vps.timeLeftSec = CFG.redeem.seconds,
                      !.state.vps.lastTickMs = t]
      m2 == pushActivity(m1, "Redeemed VPS 6H", 0 - CFG.redeem.points, t)
  IN toastShow(persist(m2), "VPS is running. Countdown started.", 0)

\* stopVps up to its await of the confirm modal.
stopVpsStart(m, ses) ==
  IF ~isLoggedIn(ses)
  THEN [m |-> m, go |-> FALSE]
  ELSE IF m.state.vps.status # "running"
  THEN [m |-> toastShow(m, "VPS is not running.", 0), go |-> FALSE]
  ELSE [m |-> m, go |-> TRUE]

\* A stopVps that forfeits the remaining time (C6 fails for it).
stopVpsForfeit(m, ok, t) ==
  IF ~ok
  THEN m
  ELSE toastShow(
         persist([m EXCEPT !.state.vps.status = "stopped",
                           !.state.vps.timeLeftSec = 0,
                           !.state.vps.lastTickMs = t]),
         "VPS stopped (timer paused).", 0)

\* stopVps after the modal settles with ok.
stopVpsFinish(m, ok, t) ==
  IF ~ok
  THEN m
  ELSE toastShow(
         persist([m EXCEPT !.state.vps.status = "stopped",
                           !.state.vps.lastTickMs = t]),
         "VPS stopped (timer paused).", 0)

\* An extendVps that also restarts the countdown reference (C8 fails for it).
extendVpsRestart(m, t, ses) ==
  IF ~isLoggedIn(ses)
  THEN m
  ELSE IF m.state.vps.timeLeftSec <= 0
  THEN toastShow(m, "No active time to extend. Create a VPS first.", 0)
  ELSE IF m.state.pointsBalance < CFG.extend.points
  THEN toastShow(m, "Not enough points. Need N more.",
                 CFG.extend.points - m.state.pointsBalance)
  ELSE LET m1 == persist([m EXCEPT !.state.pointsBalance = @ - CFG.extend.points,
                                   !.state.vps.timeLeftSec = @ + CFG.extend.seconds,
                                   !.state.vps.lastTickMs = t])
           m2 == pushActivity(m1, "Extended time", 0 - CFG.extend.points, t)
       IN toastShow(m2, "Extended +Nh for 50 pts.", CFG.extend.seconds \div 3600)

extendVps(m, t, ses) ==
  IF ~isLoggedIn(ses)
  THEN m
  ELSE IF m.state.vps.timeLeftSec <= 0
  THEN toastShow(m, "No active time to extend. Create a VPS first.", 0)
  ELSE IF m.state.pointsBalance < CFG.extend.points
  THEN toastShow(m, "Not enough points. Need N more.",
                 CFG.extend.points - m.state.pointsBalance)
  ELSE LET m1 == persist([m EXCEPT !.state.pointsBalance = @ - CFG.extend.points,
                                   !.state.vps.timeLeftSec = @ + CFG.extend.seconds])
           m2 == pushActivity(m1, "Extended time", 0 - CFG.extend.points, t)
       IN toastShow(m2, "Extended +Nh for 50 pts.", CFG.extend.seconds \div 3600)

\* ---------------------------------------------------------------- Actions
\* Activity entries pushed since the first construction, plus those the
\* continuations in flight will push: the operations the user has spent.
\* The user has no operation accepted beyond MaxRecent.
WithinBudget(go) == go => started < MaxRecent
Spend(go) == started' = IF go THEN started + 1 ELSE started

Advance ==
  /\ Later(now) # {}
  /\ now' = CHOOSE u \in Later(now) : \A w \in Later(now) : u <= w
  /\ toast' = NoToast
  /\ UNCHANGED <<state, sessionEarned, appItem, earnedItem, session,
                 tasksInFlight, createInFlight, resolver, started>>

\* window.setInterval(tick, 1000); timers may fire late, so at any instant.
Tick ==
  /\ Commit(tick(Mem, now))
  /\ UNCHANGED <<now, session, tasksInFlight, createInFlight, resolver, started>>

Login ==
  /\ ~isLoggedIn(session)
  /\ session' = "user"
  /\ toast' = <<"Signed in.", 0>>
  /\ UNCHANGED <<now, state, sessionEarned, appItem, earnedItem,
                 tasksInFlight, createInFlight, resolver, started>>

Logout ==
  /\ isLoggedIn(session)
  /\ session' = "null"
  /\ toast' = <<"Logged out.", 0>>
  /\ UNCHANGED <<now, state, sessionEarned, appItem, earnedItem,
                 tasksInFlight, createInFlight, resolver, started>>

\* Click on a task button: runTask up to the await.
RunTask(type, delay) ==
  LET r == runTaskGate(Mem, type, now, session)
  IN /\ WithinBudget(r.go)
     /\ Spend(r.go)
     /\ Commit(r.m)
     /\ tasksInFlight' =
          IF r.go
          THEN tasksInFlight (+) SetToBag({[type |-> type, today |-> utcDateKey(now),
                                            due |-> now + delay]})
          ELSE tasksInFlight
     /\ UNCHANGED <<now, session, createInFlight, resolver>>

\* The timer of a claim fires: runTask after the await.
TaskDone(p) ==
  /\ BagIn(p, tasksInFlight)
  /\ now >= p.due
  /\ Commit(runTaskReward(Mem, p.type, p.today, now))
  /\ tasksInFlight' = tasksInFlight (-) SetToBag({p})
  /\ UNCHANGED <<now, session, createInFlight, resolver, started>>

CreateVps(delay) ==
  LET r == createVpsStart(Mem, session)
  IN /\ WithinBudget(r.go)
     /\ Spend(r.go)
     /\ Commit(r.m)
     /\ createInFlight' =
          IF r.go THEN createInFlight (+) SetToBag({now + delay}) ELSE createInFlight
     /\ UNCHANGED <<now, session, tasksInFlight, resolver>>

CreateDone(due) ==
  /\ BagIn(due, createInFlight)
  /\ now >= due
  /\ Commit(createVpsFinish(Mem, now))
  /\ createInFlight' = createInFlight (-) SetToBag({due})
  /\ UNCHANGED <<now, session, tasksInFlight, resolver, started>>

StopVps ==
  LET r == stopVpsStart(Mem, session)
  IN /\ Commit(r.m)
     /\ resolver' = (resolver \/ r.go)
     /\ UNCHANGED <<now, session, tasksInFlight, createInFlight, started>>

\* Click on ok / cancel of the confirm modal: settle(v), then stopVps resumes.
Settle(ok) ==
  /\ resolver
  /\ Commit(stopVpsFinish(Mem, ok, now))
  /\ resolver' = FALSE
  /\ UNCHANGED <<now, session, tasksInFlight, createInFlight, started>>

ExtendVps ==
  /\ WithinBudget(extendVps(Mem, now, session).state.pointsBalance # state.pointsBalance)
  /\ Spend(extendVps(Mem, now, session).state.pointsBalance # state.pointsBalance)
  /\ Commit(extendVps(Mem, now, session))
  /\ UNCHANGED <<now, session, tasksInFlight, createInFlight, resolver>>

\* Page reload: timers and promises are gone, the app IIFE runs again.
Reload ==
  /\ Commit(construct(appItem, earnedItem, now))
  /\ tasksInFlight' = EmptyBag
  /\ createInFlight' = EmptyBag
  /\ resolver' = FALSE
  /\ UNCHANGED <<now, session, started>>

\* A reset that leaves the sessionStorage key in place (C16 fails for it).
ResetKeepsEarned ==
  /\ Commit(construct(<<>>, earnedItem, now))
  /\ session' = "null"
  /\ tasksInFlight' = EmptyBag
  /\ createInFlight' = EmptyBag
  /\ resolver' = FALSE
  /\ UNCHANGED <<now, started>>

\* window.CloudVPS.reset(): remove every key, then reload.  The reload is
\* taken to unload the page before any of its timers fires again.
Reset ==
  /\ Commit(construct(<<>>, <<>>, now))
  /\ session' = "null"
  /\ tasksInFlight' = EmptyBag
  /\ createInFlight' = EmptyBag
  /\ resolver' = FALSE
  /\ UNCHANGED <<now, started>>

Next ==
  \/ Advance
  \/ Tick
  \/ Login
  \/ Logout
  \/ \E type \in TaskTypes, delay \in Delays : RunTask(type, delay)
  \/ \E p \in BagToSet(tasksInFlight) : TaskDone(p)
  \/ \E delay \in Delays : CreateVps(delay)
  \/ \E due \in BagToSet(createInFlight) : CreateDone(due)
  \/ StopVps
  \/ \E ok \in BOOLEAN : Settle(ok)
  \/ ExtendVps
  \/ Reset
  \/ Reload

Spec == Init /\ [][Next]_vars

\* ---------------------------------------------------------------- Properties
NotEnough(need) == <<"Not enough points. Need N more.", need>>
CreateStep == \E delay \in Delays : CreateVps(delay)

\* C1: pointsBalance is never negative; a createVps of a signed-in user on a
\* stopped lease, and an extendVps of a signed-in user with time left, is
\* rejected with "Not enough points" and changes nothing exactly when its cost
\* (10, 50) is greater than the balance, and otherwise takes exactly its cost.
C1_DebitChecksBalance ==
  /\ [](state.pointsBalance >= 0)
  /\ [][ /\ (CreateStep /\ isLoggedIn(session) /\ state.vps.status = "stopped")
            => IF CFG.redeem.points > state.pointsBalance
               THEN /\ toast' = NotEnough(CFG.redeem.points - state.pointsBalance)
                    /\ UNCHANGED <<state, appItem, createInFlight>>
               ELSE /\ toast' = <<"Provisioning VPS...", 0>>
                    /\ state'.pointsBalance = state.pointsBalance - CFG.redeem.points
         /\ (ExtendVps /\ isLoggedIn(session) /\ state.vps.timeLeftSec > 0)
            => IF CFG.extend.points > state.pointsBalance
               THEN /\ toast' = NotEnough(CFG.extend.points - state.pointsBalance)
                    /\ UNCHANGED <<state, appItem>>
               ELSE /\ toast'[1] = "Extended +Nh for 50 pts."
                    /\ state'.pointsBalance = state.pointsBalance - CFG.extend.points
       ]_vars

\* An extend was just rejected for 40 missing points, after a create and an
\* extend had taken the balance from 70 to 10.
C1_Witness ==
  /\ toast = NotEnough(40)
  /\ state.pointsBalance = 10
  /\ state.vps.timeLeftSec > 0

DailyEntries == { i \in 1..Len(state.activity) : state.activity[i].label = CFG.tasks.daily.label }

\* C2: for every UTC date-key D at most one daily bonus is credited while the
\* clock's UTC date is D, that is, no two daily-bonus activity entries carry
\* timestamps of the same UTC date.
C2_DailyOncePerDate ==
  \A i, j \in DailyEntries :
    i # j => utcDateKey(state.activity[i].ts) # utcDateKey(state.activity[j].ts)

CooledTypes == DOMAIN initial(0).tasks

\* C3: a "video" or "short" claim of a signed-in user issued before
\* cooldownUntilMs of its type is rejected with "Task on cooldown" and credits
\* nothing, and one issued at or after it is accepted; when the reward is
\* credited at time t, cooldownUntilMs becomes t + cooldownSec * 1000 (25 s for
\* "short", 0 s for "video"), and only a reset ever lowers it.
C3_CooldownGate ==
  [][ /\ \A type \in CooledTypes :
           ((\E delay \in Delays : RunTask(type, delay)) /\ isLoggedIn(session))
           => IF now < state.tasks[type].cooldownUntilMs
              THEN /\ toast' = <<"Task on cooldown. Please wait.", 0>>
                   /\ tasksInFlight' = tasksInFlight
                   /\ state'.pointsBalance = state.pointsBalance
                   /\ state'.tasks = state.tasks
              ELSE /\ toast' = <<"Processing task...", 0>>
                   /\ BagCardinality(tasksInFlight') = BagCardinality(tasksInFlight) + 1
      /\ \A p \in BagToSet(tasksInFlight) :
           (TaskDone(p) /\ p.type \in CooledTypes)
           => /\ state'.tasks[p.type].cooldownUntilMs = now + CFG.tasks[p.type].cooldownSec * 1000
              /\ state'.pointsBalance = state.pointsBalance + CFG.tasks[p.type].reward
      /\ ~Reset => \A type \in CooledTypes :
                     state'.tasks[type].cooldownUntilMs >= state.tasks[type].cooldownUntilMs
    ]_vars

\* A "short" claim was just accepted at the very instant the 25 s cooldown of
\* an earlier one ended.
C3_Witness ==
  /\ state.tasks.short.cooldownUntilMs = now
  /\ toast = <<"Processing task...", 0>>
  /\ \E p \in BagToSet(tasksInFlight) :
       p.type = "short" /\ p.due = now + CFG.simulateDelayMs.min

\* Whole seconds elapsed since lastTickMs.
Elapsed == (now - state.vps.lastTickMs) \div 1000

\* C4: a tick taken while running with T seconds left and d whole seconds
\* elapsed since lastTickMs leaves Max(0, T - d) seconds; the lease stays
\* running when that is more than 0 and is stopped by that same tick when it
\* is 0.
C4_TickCountdown ==
  [][ (Tick /\ state.vps.status = "running")
      => /\ state'.vps.timeLeftSec = Max(0, state.vps.timeLeftSec - Elapsed)
         /\ state'.vps.status =
              IF state.vps.timeLeftSec - Elapsed > 0 THEN "running" ELSE "stopped"
    ]_vars

\* 3600 s were left, 1500 s went by, and a tick has just left 2100 s on a
\* running lease.
C4_Witness ==
  /\ state.vps.status = "running"
  /\ state.vps.timeLeftSec = 2100
  /\ state.vps.lastTickMs = LeaseStartMs + FineStep + 19500000

\* C5: a step in which timeLeftSec decreases (a reset apart, which wipes the
\* account) starts with status "running" and takes off exactly the whole
\* seconds elapsed since lastTickMs, down to 0 at most; so timeLeftSec never
\* decreases in a step taken while stopped or provisioning.
C5_OnlyTickDecreases ==
  [][ (~Reset /\ state'.vps.timeLeftSec < state.vps.timeLeftSec)
      => /\ state.vps.status = "running"
         /\ state'.vps.timeLeftSec = Max(0, state.vps.timeLeftSec - Elapsed)
    ]_vars

\* C6: a confirmed stop of a running lease makes it stopped, keeps timeLeftSec
\* and pointsBalance and sets lastTickMs to now; while stopped no tick, clock
\* advance or reload changes timeLeftSec; and an extendVps of a signed-in user
\* while stopped with time left and 50 points or more adds 3600 s and leaves
\* the lease stopped.
C6_StopFreezesTime ==
  [][ /\ (Settle(TRUE) /\ state.vps.status = "running")
         => /\ state'.vps = [status |-> "stopped",
                             timeLeftSec |-> state.vps.timeLeftSec,
                             lastTickMs |-> now]
            /\ state'.pointsBalance = state.pointsBalance
      /\ (state.vps.status = "stopped" /\ (Tick \/ Advance \/ Reload))
         => /\ state'.vps.timeLeftSec = state.vps.timeLeftSec
            /\ state'.vps.status = "stopped"
      /\ (/\ ExtendVps
          /\ isLoggedIn(session)
          /\ state.vps.status = "stopped"
          /\ state.vps.timeLeftSec > 0
          /\ state.pointsBalance >= CFG.extend.points)
         => /\ state'.vps = [state.vps EXCEPT !.timeLeftSec = @ + CFG.extend.seconds]
            /\ toast'[1] = "Extended +Nh for 50 pts."
    ]_vars

\* A lease created in this run was stopped and then extended while stopped.
C6_Witness ==
  /\ state.vps.status = "stopped"
  /\ state.vps.lastTickMs >= LeaseStartMs
  /\ state.vps.timeLeftSec = CFG.redeem.seconds + CFG.extend.seconds
  /\ toast[1] = "Extended +Nh for 50 pts."

\* C7: a createVps of a signed-in user is rejected as already active when the
\* lease is provisioning or running, whatever the balance; otherwise it is
\* rejected for missing points when the balance is below 10; otherwise (a
\* balance of exactly 10 included) it takes 10 points and makes the lease
\* provisioning at once.  When its delay is over the lease is running with
\* 21600 s left and lastTickMs = now, and the balance is as it was.
C7_CreateVps ==
  [][ /\ (CreateStep /\ isLoggedIn(session))
         => IF state.vps.status \in {"provisioning", "running"}
            THEN /\ toast' = <<"VPS is already running/provisioning.", 0>>
                 /\ UNCHANGED <<state, createInFlight>>
            ELSE IF state.pointsBalance < CFG.redeem.points
            THEN /\ toast' = NotEnough(CFG.redeem.points - state.pointsBalance)
                 /\ UNCHANGED <<state, createInFlight>>
            ELSE /\ state' = [state EXCEPT !.pointsBalance = @ - CFG.redeem.points,
                                           !.vps.status = "provisioning"]
                 /\ BagCardinality(createInFlight') = BagCardinality(createInFlight) + 1
      /\ \A due \in BagToSet(createInFlight) :
           CreateDone(due)
           => /\ state'.vps = [status |-> "running",
                               timeLeftSec |-> CFG.redeem.seconds,
                               lastTickMs |-> now]
              /\ state'.pointsBalance = state.pointsBalance
    ]_vars

\* A first run earned exactly 10 points, spent them on createVps, and the
\* lease has just come up: balance 0, running, 21600 s.
C7_Witness ==
  /\ now < LeaseStartMs
  /\ toast = <<"VPS is running. Countdown started.", 0>>
  /\ state.pointsBalance = 0
  /\ state.vps = [status |-> "running", timeLeftSec |-> 21600, lastTickMs |-> now]

\* C8: an extendVps of a signed-in user is rejected for having nothing to
\* extend when timeLeftSec <= 0, whatever the balance; otherwise it is
\* rejected for missing points when the balance is below 50; otherwise,
\* whatever the status, it takes exactly 50 points, adds exactly 3600 s, puts
\* one entry with delta -50 in front of the activity log, and changes nothing
\* else of the state (status and lastTickMs included).
C8_ExtendVps ==
  [][ (ExtendVps /\ isLoggedIn(session))
      => IF state.vps.timeLeftSec <= 0
         THEN /\ toast' = <<"No active time to extend. Create a VPS first.", 0>>
              /\ UNCHANGED state
         ELSE IF state.pointsBalance < CFG.extend.points
         THEN /\ toast' = NotEnough(CFG.extend.points - state.pointsBalance)
              /\ UNCHANGED state
         ELSE LET all == <<[label |-> "Extended time", delta |-> -50, ts |-> now]>>
                           \o state.activity
              IN state' = [state EXCEPT
                             !.pointsBalance = @ - 50,
                             !.vps.timeLeftSec = @ + 3600,
                             !.activity = SubSeq(all, 1, Min(Len(all), CFG.activityMax))]
    ]_vars

\* An extend has just gone through on a lease that is still provisioning.
C8_Witness ==
  /\ state.vps.status = "provisioning"
  /\ toast[1] = "Extended +Nh for 50 pts."
  /\ state.activity[1] = [label |-> "Extended time", delta |-> -50, ts |-> now]

\* C9: in every state a running lease has time left.
C9_RunningHasTime == state.vps.status = "running" => state.vps.timeLeftSec > 0

\* A tick has just found the lease run out and stopped it.
C9_Witness ==
  /\ toast = <<"Time ended. VPS stopped.", 0>>
  /\ state.vps = [status |-> "stopped", timeLeftSec |-> 0, lastTickMs |-> now]

\* C10: across a tick (the one a reload runs included) that leaves the lease
\* running, timeLeftSec * 1000 + lastTickMs keeps its value, and afterwards
\* less than one second of elapsed time is unaccounted.  The two together fix
\* timeLeftSec as a function of the clock alone, however the ticks were
\* placed.
C10_TickConservesTime ==
  [][ ((Tick \/ Reload) /\ state.vps.status = "running" /\ state'.vps.status = "running")
      => /\ state'.vps.timeLeftSec * 1000 + state'.vps.lastTickMs
              = state.vps.timeLeftSec * 1000 + state.vps.lastTickMs
         /\ now - state'.vps.lastTickMs \in 0..999
    ]_vars

\* A tick 18000.5 s after the lease came up has counted 18000 s and kept the
\* half second for the next one.
C10_Witness ==
  /\ state.vps.status = "running"
  /\ state.vps.timeLeftSec = 3600
  /\ now - state.vps.lastTickMs = 500

\* C11: the activity log never holds more than 6 entries and is ordered
\* newest first; a step that changes it either empties it (reset) or puts one
\* entry stamped now in front of the 5 newest entries it held, so after 6 + k
\* pushes it holds exactly the 6 most recent ones.
C11_ActivityKeepsNewest ==
  /\ [](/\ Len(state.activity) <= CFG.activityMax
        /\ \A i, j \in 1..Len(state.activity) :
             i < j => state.activity[i].ts >= state.activity[j].ts)
  /\ [][ state'.activity # state.activity
         => \/ state'.activity = <<>>
            \/ /\ state'.activity # <<>>
               /\ state'.activity[1].ts = now
               /\ Tail(state'.activity)
                    = SubSeq(state.activity, 1,
                             Min(Len(state.activity), CFG.activityMax - 1))
       ]_vars

\* Two entries were pushed onto the full log of the earlier run: its two
\* oldest entries are gone and its third oldest is now the last.
C11_Witness ==
  /\ Len(state.activity) = CFG.activityMax
  /\ state.activity[2].ts >= LeaseStartMs
  /\ state.activity[CFG.activityMax] = PausedBlob.activity[CFG.activityMax - 2]

\* A step that runs ensureDaily: a tick, either half of runTask, and the
\* construction of the app.
DailyGateStep ==
  \/ Tick
  \/ Reload
  \/ \E type \in TaskTypes, delay \in Delays : RunTask(type, delay)
  \/ \E p \in BagToSet(tasksInFlight) : TaskDone(p)

\* C12: after every step that runs the daily gate, a completed daily claim
\* included, dailyClaimedUtcDate is empty or the UTC date-key of the clock.
C12_ClaimedDateIsToday ==
  [][ DailyGateStep
      => state'.daily.dailyClaimedUtcDate \in {EmptyKey, utcDateKey(now)}
    ]_vars

FreshWindow == [utcDate |-> utcDateKey(now), earned |-> 0, dailyClaimedUtcDate |-> EmptyKey]

\* C13: a tick, whose first act is the daily gate, replaces the daily window
\* by (today, 0, empty) when its utcDate is not the date-key of the clock and
\* leaves it alone otherwise, and changes neither pointsBalance nor the task
\* cooldowns nor the activity log, nor the lease unless it is running; after
\* every step that runs the gate utcDate is the date-key of the clock; and a
\* second gate check at the same clock changes nothing.
C13_DailyGateFrame ==
  [][ /\ DailyGateStep => state'.daily.utcDate = utcDateKey(now)
      /\ Tick => /\ state'.daily = IF state.daily.utcDate # utcDateKey(now)
                                   THEN FreshWindow
                                   ELSE state.daily
                 /\ state'.pointsBalance = state.pointsBalance
                 /\ state'.tasks = state.tasks
                 /\ state'.activity = state.activity
                 /\ state.vps.status # "running" => state'.vps = state.vps
      /\ ensureDaily(ensureDaily(Mem, now), now) = ensureDaily(Mem, now)
    ]_vars

\* Ten points were earned the day before; a tick has just opened the new
\* day's window and the points are still there.
C13_Witness ==
  /\ toast = <<"Daily missions refreshed (UTC).", 0>>
  /\ state.daily = FreshWindow
  /\ state.pointsBalance = 10
  /\ Len(state.activity) = 1

\* The state after persist(), a reload and the first tick, the clock unchanged.
RoundTrip ==
  LET p == persist(Mem) IN construct(p.appItem, p.earnedItem, now).state

\* C14: in every state that a tick at the present clock would leave as it is,
\* persisting, reloading and ticking with the clock unchanged gives the very
\* same state.
C14_ReloadRoundTrip == tick(Mem, now).state = state => RoundTrip = state

\* What the current window has earned so far, counted at the clock: nothing
\* when the window in memory is that of an earlier day.
EarnedToday == IF state.daily.utcDate = utcDateKey(now) THEN state.daily.earned ELSE 0

\* C15: the crediting step of a claim of type t adds exactly the reward of t
\* (video 5, short 2, daily 10) to pointsBalance and to what the window of
\* today has earned, puts one activity entry with delta = +reward in front of
\* the log, and leaves the lease alone; no other step changes earned except
\* to 0 when a new window starts (the date-key changes, or a reset), so
\* earned is always the sum of the rewards credited in the current window.
C15_ClaimCredits ==
  [][ /\ \A p \in BagToSet(tasksInFlight) :
           TaskDone(p)
           => LET r == CFG.tasks[p.type].reward
                  all == <<[label |-> CFG.tasks[p.type].label, delta |-> r, ts |-> now]>>
                           \o state.activity
              IN /\ r = CASE p.type = "video" -> 5 [] p.type = "short" -> 2 [] p.type = "daily" -> 10
                 /\ state'.pointsBalance = state.pointsBalance + r
                 /\ state'.daily.earned = EarnedToday + r
                 /\ state'.activity = SubSeq(all, 1, Min(Len(all), CFG.activityMax))
                 /\ state'.vps = state.vps
      /\ (~ \E p \in BagToSet(tasksInFlight) : TaskDone(p))
         => \/ state'.daily.earned = state.daily.earned
            \/ /\ state'.daily.earned = 0
               /\ state'.daily.utcDate # state.daily.utcDate \/ Reset
    ]_vars

\* A "video" and then a "short" claim have been credited on the same day.
C15_Witness ==
  /\ toast = <<"+N points earned.", 2>>
  /\ state.daily.earned = 7
  /\ state.pointsBalance = 7

\* C16: a reset followed by the construction of the app leaves, whatever the
\* state before, the zeroed defaults: pointsBalance 0, a stopped lease with
\* no time left, a window of today with earned 0 and no claimed date, both
\* cooldowns 0, an empty activity log and sessionEarned 0; nothing is left in
\* storage, nobody is signed in and no continuation is pending.
C16_ResetZeroes ==
  [][ Reset
      => /\ state' = [ pointsBalance |-> 0,
                       vps |-> [status |-> "stopped", timeLeftSec |-> 0, lastTickMs |-> now],
                       daily |-> [utcDate |-> utcDateKey(now), earned |-> 0,
                                  dailyClaimedUtcDate |-> EmptyKey],
                       tasks |-> [video |-> [cooldownUntilMs |-> 0],
                                  short |-> [cooldownUntilMs |-> 0]],
                       activity |-> <<>> ]
         /\ sessionEarned' = 0
         /\ appItem' = <<>> /\ earnedItem' = <<>>
         /\ session' = "null"
         /\ tasksInFlight' = EmptyBag /\ createInFlight' = EmptyBag /\ ~resolver'
    ]_vars

\* The account of the earlier run, after two more operations, has been reset.
C16_Witness ==
  /\ now >= LeaseStartMs
  /\ started = MaxRecent
  /\ appItem = <<>>
  /\ state = initial(now)
  /\ sessionEarned = 0

\* C17: between handlers (every state of the model is one where control is
\* back in the event loop) the item under KEYS.app holds the state in memory.
C17_StoredIsMemory == appItem = <<state>>

ShortEntries == { i \in 1..Len(state.activity) : state.activity[i].label = CFG.tasks.short.label }

\* C18: of two overlapping claims of one type at most one is credited: any
\* two "short" credits in the log are 25 s or more apart, and a daily claim
\* is never credited when a claim gated on the same date-key has been
\* credited already.
C18_ClaimsAreAtomic ==
  /\ [](\A i, j \in ShortEntries :
          i < j => state.activity[i].ts - state.activity[j].ts
                     >= CFG.tasks.short.cooldownSec * 1000)
  /\ [][ \A p \in BagToSet(tasksInFlight) :
           (TaskDone(p) /\ p.type = "daily") => state.daily.dailyClaimedUtcDate # p.today
       ]_vars

\* C19: the status of the lease changes only from stopped to provisioning,
\* from provisioning to running and from running to stopped (a reset apart).
C19_StatusCycle ==
  [][ (~Reset /\ state'.vps.status # state.vps.status)
      => <<state.vps.status, state'.vps.status>>
           \in { <<"stopped", "provisioning">>,
                 <<"provisioning", "running">>,
                 <<"running", "stopped">> }
    ]_vars

\* The clock keeps going to the end of its timeline and a createVps timer
\* that is due fires.
FairSpec ==
  /\ Spec
  /\ WF_vars(Advance)
  /\ WF_vars(\E due \in BagToSet(createInFlight) : CreateDone(due))

\* C20: a lease that is provisioning, with time still to come, is running at
\* some later moment (or the account has been reset); it does not stay
\* provisioning for ever, not even when the page is reloaded meanwhile.
C20_ProvisioningEnds ==
  (state.vps.status = "provisioning" /\ Later(now) # {})
    ~> (state.vps.status = "running" \/ appItem = <<>>)

\* The delta of the entry a step appends to the activity log, 0 when the step
\* appends none.
AppendedDelta ==
  IF state'.activity # state.activity /\ state'.activity # <<>>
  THEN state'.activity[1].delta
  ELSE 0

\* C21: pointsBalance is the sum of the deltas of the entries ever appended to
\* the activity log: every step (a reset apart, which empties both) changes
\* the balance by exactly the delta of the entry it appends, so the persisted
\* state never holds a debit or credit without its entry.
C21_BalanceHasEntry ==
  [][ ~Reset => state'.pointsBalance - state.pointsBalance = AppendedDelta ]_vars

CreateDoneStep == \E due \in BagToSet(createInFlight) : CreateDone(due)
SettleStep == \E ok \in BOOLEAN : Settle(ok)

\* C22: the createVps that takes the lease to provisioning takes exactly the
\* cost of 10 points in that step; the completion of the create, a tick (an
\* expiry included), a stop with its confirmation, a reload and the passing
\* of time leave pointsBalance as it is, and the balance rises in no step
\* other than the crediting of a task claim.
C22_CreateDebitsOnce ==
  [][ /\ (CreateStep /\ state'.vps.status = "provisioning" /\ state.vps.status # "provisioning")
         => state'.pointsBalance = state.pointsBalance - CFG.redeem.points
      /\ (CreateDoneStep \/ Tick \/ StopVps \/ SettleStep \/ Reload \/ Advance)
         => state'.pointsBalance = state.pointsBalance
      /\ state'.pointsBalance > state.pointsBalance
         => \E p \in BagToSet(tasksInFlight) : TaskDone(p)
    ]_vars

\* A create took the balance of 70 to 60 and the page was reloaded before
\* the VPS came up: the lease is provisioning with no timer, and the balance
\* is still 60.
C22_Witness ==
  /\ state.vps.status = "provisioning"
  /\ createInFlight = EmptyBag
  /\ state.pointsBalance = 60
  /\ appItem # <<>> /\ appItem[1].pointsBalance = 60

\* As FairSpec, and the interval timer of tick keeps firing.
TickingSpec ==
  /\ FairSpec
  /\ WF_vars(Tick)

LastInstant == LeaseStartMs + FineStep + GapLevel(Min(MaxGaps, Len(Gaps)))
Expired == <<"Time ended. VPS stopped.", 0>>
\* The lease is running on the clock that goes on to LastInstant, its time
\* runs out before that instant and the user has no operation left to extend
\* it with.
Expirable ==
  /\ state.vps.status = "running"
  /\ now >= LeaseStartMs
  /\ state.vps.lastTickMs + state.vps.timeLeftSec * 1000 <= LastInstant
  /\ started = MaxRecent

\* C23: a running lease whose time runs out while the clock advances and the
\* ticks fire, with no extend to come, gets stopped; a tick that ends a
\* running lease leaves it stopped with timeLeftSec 0 and shows the expiry
\* message, and a tick that finds the lease stopped changes nothing of it and
\* shows no expiry message.
C23_RunningExpires ==
  /\ Expirable ~> (state.vps.status = "stopped")
  /\ [][ Tick
         => /\ (state.vps.status = "running" /\ state'.vps.status # "running")
               => /\ state'.vps.status = "stopped"
                  /\ state'.vps.timeLeftSec = 0
                  /\ toast' = Expired
            /\ toast' = Expired
               => /\ state.vps.status = "running"
                  /\ state'.vps.status = "stopped"
                  /\ state'.vps.timeLeftSec = 0
            /\ state.vps.status = "stopped"
               => state'.vps = state.vps /\ toast' # Expired
       ]_vars

\* The lease created in this run has run its 21600 s out and the tick has
\* just stopped it.
C23_Witness ==
  /\ toast = Expired
  /\ state.vps.status = "stopped"
  /\ state.vps.timeLeftSec = 0
  /\ state.activity # <<>> /\ state.activity[1].label = "Redeemed VPS 6H"
  /\ state.activity[1].ts >= LeaseStartMs

\* The messages of the rejections: InsufficientFunds, OnCooldown,
\* AlreadyClaimedToday, AlreadyActive, NotRunning, NothingToExtend.
Rejections ==
  { "Not enough points. Need N more.",
    "Task on cooldown. Please wait.",
    "Daily bonus already claimed today (UTC).",
    "VPS is already running/provisioning.",
    "VPS is not running.",
    "No active time to extend. Create a VPS first." }
RunTaskStep == \E type \in TaskTypes, delay \in Delays : RunTask(type, delay)
Rejected ==
  \/ (RunTaskStep \/ CreateStep \/ StopVps \/ ExtendVps) /\ toast'[1] \in Rejections
  \/ Settle(FALSE)

\* C24: an operation that is rejected (not enough points, cooldown, daily
\* bonus claimed already, VPS active already, VPS not running, no time to
\* extend, or a stop that is cancelled) changes neither pointsBalance, the
\* lease, the cooldowns, the claimed date, the activity log nor
\* sessionEarned and starts no continuation; a rejected task claim alone may
\* have opened the window of a new UTC day.
C24_RejectionChangesNothing ==
  [][ Rejected
      => /\ sessionEarned' = sessionEarned
         /\ UNCHANGED <<tasksInFlight, createInFlight, started>>
         /\ \/ state' = state
            \/ /\ RunTaskStep
               /\ state.daily.utcDate # utcDateKey(now)
               /\ state' = [state EXCEPT !.daily = FreshWindow]
    ]_vars

\* A "short" claim credited just before midnight is claimed again just after
\* it: the claim is rejected for its cooldown, in the window of the new day.
C24_Witness ==
  /\ toast = <<"Task on cooldown. Please wait.", 0>>
  /\ state.pointsBalance = CFG.tasks.short.reward
  /\ state.daily = FreshWindow
  /\ state.activity[1].ts < utcDateKey(now) * DayMs

\* C25: sessionEarned counts the rewards credited since the app was last
\* constructed: it is 0 after a reload or a reset, rises by exactly the reward
\* when a task claim is credited, and is left alone by createVps, extendVps,
\* stopVps and tick.
C25_SessionEarnedSinceInit ==
  [][ /\ (Reload \/ Reset) => sessionEarned' = 0
      /\ \A p \in BagToSet(tasksInFlight) :
           TaskDone(p) => sessionEarned' = sessionEarned + CFG.tasks[p.type].reward
      /\ (CreateStep \/ CreateDoneStep \/ ExtendVps \/ StopVps \/ SettleStep \/ Tick)
         => sessionEarned' = sessionEarned
    ]_vars

\* C26: while nobody is signed in no step changes pointsBalance or
\* sessionEarned, the status of the lease changes only when its time runs
\* out, and a runTask, createVps, stopVps or extendVps changes nothing and
\* starts nothing (a runTask may open the window of a new UTC day); so an
\* operation begun by a signed-in user applies nothing after a logout.
C26_NothingWhenLoggedOut ==
  [][ (~isLoggedIn(session) /\ ~Reset)
      => /\ state'.pointsBalance = state.pointsBalance
         /\ sessionEarned' = sessionEarned
         /\ state'.vps.status # state.vps.status
            => (state.vps.status = "running" /\ toast' = Expired)
         /\ (RunTaskStep \/ CreateStep \/ StopVps \/ ExtendVps)
            => /\ UNCHANGED <<tasksInFlight, createInFlight, resolver, started>>
               /\ \/ state' = state
                  \/ /\ RunTaskStep
                     /\ state.daily.utcDate # utcDateKey(now)
                     /\ state' = [state EXCEPT !.daily = FreshWindow]
    ]_vars

====
